---- MODULE Spec2Model ----
(***************************************************************************)
(* Model of src/scraper/main.py: the Alsuper price scraper.                *)
(*                                                                         *)
(* Python strings are TLA+ strings, read character by character with Len,  *)
(* SubSeq and \o.  A Python float with at most two decimals is the integer *)
(* number of hundredths (85.0 is 8500).  An Optional value is a sequence:  *)
(* None is << >> and a present value v is << v >>.  Times are integers in  *)
(* milliseconds (18.0 s is 18000, ttl=300 is 300000).                      *)
(***************************************************************************)
EXTENDS Integers, Sequences, FiniteSets, TLC

VARIABLES
    now,          \* the clock read by time.time() and by the TTLCache timer (ms)
    cache,        \* TTLCache: entries [key, value, expires], least recently used first
    pc,           \* position of the running get_price call, "idle" between calls
    url,          \* get_price argument
    page,         \* the live page of the browser: [h1, body, dom, evaluable]
    product_name, \* local of get_price
    price_val,    \* local of get_price
    picked,       \* local of get_price
    deadline,     \* local of get_price
    response,     \* what the last finished get_price call gave its caller
    launches,     \* number of browser launches so far
    nreq,         \* number of get_price calls started so far
    hist,         \* history of the running call, for the properties only
    inp,          \* input of the pure-function harnesses
    out           \* output of the pure-function harnesses

vars == << now, cache, pc, url, page, product_name, price_val, picked,
           deadline, response, launches, nreq, hist, inp, out >>

(***************************************************************************)
(* Optional values and strings                                             *)
(***************************************************************************)
None == << >>

Some(v) == << v >>

Ch(s, i) == SubSeq(s, i, i)

Digits == {"0", "1", "2", "3", "4", "5", "6", "7", "8", "9"}

\* Characters str.strip(), String.trim() and the regex class \s remove or match.
Whitespace == {" ", "\t", "\n"}

DigitVal(c) == CHOOSE d \in 0..9 : Ch("0123456789", d + 1) = c

UpperChars == "ABCDEFGHIJKLMNOPQRSTUVWXYZ"

LowerChars == "abcdefghijklmnopqrstuvwxyz"

\* The lower-case letter of each upper-case letter
LowerOf == [c \in {Ch(UpperChars, k) : k \in 1..Len(UpperChars)} |->
              Ch(LowerChars, CHOOSE k \in 1..Len(UpperChars) : Ch(UpperChars, k) = c)]

LowerCh(c) == IF c \in DOMAIN LowerOf THEN LowerOf[c] ELSE c

\* str.lower() / String.toLowerCase()
RECURSIVE Lower(_)
Lower(s) ==
    IF Len(s) = 0 THEN ""
    ELSE LowerCh(Ch(s, 1)) \o Lower(SubSeq(s, 2, Len(s)))

\* str.replace(c, "") for a one-character c
RECURSIVE Remove(_, _)
Remove(s, c) ==
    IF Len(s) = 0 THEN ""
    ELSE (IF Ch(s, 1) = c THEN "" ELSE Ch(s, 1)) \o Remove(SubSeq(s, 2, Len(s)), c)

\* str.strip() / String.trim()
RECURSIVE Strip(_)
Strip(s) ==
    IF Len(s) = 0 THEN ""
    ELSE IF Ch(s, 1) \in Whitespace THEN Strip(SubSeq(s, 2, Len(s)))
    ELSE IF Ch(s, Len(s)) \in Whitespace THEN Strip(SubSeq(s, 1, Len(s) - 1))
    ELSE s

\* sub in s / String.includes
Contains(s, sub) ==
    \E i \in 1..(Len(s) - Len(sub) + 1) : SubSeq(s, i, i + Len(sub) - 1) = sub

StartsWith(s, pre) == Len(s) >= Len(pre) /\ SubSeq(s, 1, Len(pre)) = pre

\* s.index(c): position of the first c, 0 when there is none (Python raises)
IndexOf(s, c) ==
    IF \E i \in 1..Len(s) : Ch(s, i) = c
    THEN CHOOSE i \in 1..Len(s) : Ch(s, i) = c /\ \A j \in 1..(i - 1) : Ch(s, j) # c
    ELSE 0

\* s.split(","): the fields between commas
RECURSIVE Split(_)
Split(s) ==
    LET k == IndexOf(s, ",")
    IN IF k = 0 THEN << s >>
       ELSE << SubSeq(s, 1, k - 1) >> \o Split(SubSeq(s, k + 1, Len(s)))

\* End of the run of digits that starts at position i of s (i - 1 when s[i] is no digit)
RECURSIVE DigitsEnd(_, _)
DigitsEnd(s, i) ==
    IF i <= Len(s) /\ Ch(s, i) \in Digits THEN DigitsEnd(s, i + 1) ELSE i - 1

\* Decimal value of a string of digits
RECURSIVE IntOf(_)
IntOf(s) ==
    IF Len(s) = 0 THEN 0
    ELSE 10 * IntOf(SubSeq(s, 1, Len(s) - 1)) + DigitVal(Ch(s, Len(s)))

(***************************************************************************)
(* _num: first run digits[.d{1,2}] of the text without "," and "$",        *)
(* in hundredths; None when the text is empty or has no digit.             *)
(***************************************************************************)
_num(txt) ==
    IF Len(txt) = 0 THEN None
    ELSE
      LET clean == Strip(Remove(Remove(txt, ","), "$"))
      IN IF ~ \E i \in 1..Len(clean) : Ch(clean, i) \in Digits THEN None
         ELSE
           LET a == CHOOSE i \in 1..Len(clean) :
                       /\ Ch(clean, i) \in Digits
                       /\ \A j \in 1..(i - 1) : Ch(clean, j) \notin Digits
               b == DigitsEnd(clean, a)
               hasFrac == /\ b + 2 <= Len(clean)
                          /\ Ch(clean, b + 1) = "."
                          /\ Ch(clean, b + 2) \in Digits
               two == hasFrac /\ b + 3 <= Len(clean) /\ Ch(clean, b + 3) \in Digits
               frac == IF ~ hasFrac THEN 0
                       ELSE IF two THEN IntOf(SubSeq(clean, b + 2, b + 3))
                       ELSE 10 * IntOf(SubSeq(clean, b + 2, b + 2))
           IN Some(100 * IntOf(SubSeq(clean, a, b)) + frac)

(***************************************************************************)
(* _color_is_red_or_black                                                  *)
(***************************************************************************)
\* int(float(x)) for x of the form digits[.digits]; None stands for the
\* ValueError float() raises on the other fields met here ("", "abc").
IntFloat(x) ==
    LET b == DigitsEnd(x, 1)
    IN IF b = 0 THEN None
       ELSE IF b = Len(x) THEN Some(IntOf(x))
       ELSE IF /\ Ch(x, b + 1) = "."
               /\ DigitsEnd(x, b + 2) = Len(x)
            THEN Some(IntOf(SubSeq(x, 1, b)))
       ELSE None

\* The hex and keyword tests that follow the rgb branch.
ColorByName(s) ==
    IF s \in {"#000", "#000000"} THEN Some("black")
    ELSE IF s \in {"#f00", "#ff0000"} THEN Some("red")
    ELSE IF Contains(s, "black") THEN Some("black")
    ELSE IF Contains(s, "red") THEN Some("red")
    ELSE None

_color_is_red_or_black(color_str) ==
    LET s == Remove(Lower(color_str), " ")
    IN IF StartsWith(s, "rgb")
       THEN
         LET lp == IndexOf(s, "(")
             rp == IndexOf(s, ")")
         IN IF lp = 0 \/ rp = 0 THEN None              \* s.index raises
            ELSE
              LET nums == Split(IF rp > lp THEN SubSeq(s, lp + 1, rp - 1) ELSE "")
              IN IF Len(nums) < 3 THEN None            \* nums[k] or float("") raises
                 ELSE
                   LET r == IntFloat(nums[1])
                       g == IntFloat(nums[2])
                       b == IntFloat(nums[3])
                   IN IF r = None \/ g = None \/ b = None THEN None
                      ELSE IF r[1] <= 10 /\ g[1] <= 10 /\ b[1] <= 10 THEN Some("black")
                      ELSE IF r[1] >= 180 /\ g[1] <= 60 /\ b[1] <= 60 THEN Some("red")
                      ELSE ColorByName(s)
       ELSE ColorByName(s)

(***************************************************************************)
(* _guess_units: the unit label, the pack size and the weight per unit.    *)
(***************************************************************************)
Units(unit, pack_size, unit_weight_g) ==
    [unit |-> unit, pack_size |-> pack_size, unit_weight_g |-> unit_weight_g]

KgProducts == {"pulpa-de-res", "jamon-de-pierna", "tocineta", "cebolla"}

\* A variant that tests "paquete" before the other rules.
GuessUnitsPaqueteFirst(u, page_text) ==
    LET low == Lower(u \o " " \o page_text)
    IN IF Contains(low, "paquete") THEN Units("paquete", Some(1), Some(800))
       ELSE IF \/ Contains(low, "cerveza-six-pack")
               \/ Contains(low, "six pack")
               \/ Contains(low, "six-pack")
       THEN Units("six-pack", Some(6), None)
       ELSE IF Contains(low, "nectar-mixto") \/ Contains(low, "v8") \/ Contains(low, "lata")
       THEN Units("lata", Some(1), None)
       ELSE IF \/ Contains(low, "kg")
               \/ Contains(low, "kilo")
               \/ \E k \in KgProducts : Contains(low, k)
       THEN Units("kg", None, None)
       ELSE IF Contains(low, "chorizo")
       THEN Units("pieza", Some(1), Some(100))
       ELSE IF Contains(low, "salchicha") \/ Contains(low, "salchichas")
       THEN Units("paquete", Some(1), Some(800))
       ELSE Units("pieza", Some(1), None)

_guess_units(u, page_text) ==
    LET low == Lower(u \o " " \o page_text)
    IN IF \/ Contains(low, "cerveza-six-pack")
          \/ Contains(low, "six pack")
          \/ Contains(low, "six-pack")
       THEN Units("six-pack", Some(6), None)
       ELSE IF Contains(low, "nectar-mixto") \/ Contains(low, "v8") \/ Contains(low, "lata")
       THEN Units("lata", Some(1), None)
       ELSE IF \/ Contains(low, "kg")
               \/ Contains(low, "kilo")
               \/ \E k \in KgProducts : Contains(low, k)
       THEN Units("kg", None, None)
       ELSE IF Contains(low, "chorizo")
       THEN Units("pieza", Some(1), Some(100))
       ELSE IF Contains(low, "salchicha") \/ Contains(low, "salchichas")
       THEN Units("paquete", Some(1), Some(800))
       ELSE IF Contains(low, "paquete")
       THEN Units("paquete", Some(1), Some(800))
       ELSE Units("pieza", Some(1), None)

(***************************************************************************)
(* The page.  A DOM is the sequence of its elements in document order; an  *)
(* element is [tag, classes, h1rel, textContent, color, textDecoration,    *)
(* textDecorationLine], where classes are the tokens of its class          *)
(* attribute, h1rel says whether it lies under the element right after an  *)
(* h1 ("adjacent"), under a later sibling of an h1 ("sibling") or neither  *)
(* ("none"), and the last three are its computed style.                    *)
(***************************************************************************)
PRICE_SELECTORS ==
    << "mat-label.as-discount-price.as-font-red-blood",
       "mat-label.as-price.as-font-red-blood",
       "[class*='as-discount-price'][class*='as-font-red']",
       "[class*='as-price'][class*='as-font-red']",
       "mat-label.as-price",
       "[class*='as-price']",
       "h1 + * [class*='as-price']",
       "h1 ~ * [class*='as-price']" >>

\* .name: the class list holds the token
HasClass(el, name) == \E k \in 1..Len(el.classes) : el.classes[k] = name

\* [class*='part']: the class attribute contains the substring
ClassContains(el, part) == \E k \in 1..Len(el.classes) : Contains(el.classes[k], part)

\* Element.matches(sel) for the selectors of PRICE_SELECTORS
Matches(sel, el) ==
    CASE sel = PRICE_SELECTORS[1] ->
           /\ el.tag = "mat-label"
           /\ HasClass(el, "as-discount-price")
           /\ HasClass(el, "as-font-red-blood")
      [] sel = PRICE_SELECTORS[2] ->
           /\ el.tag = "mat-label"
           /\ HasClass(el, "as-price")
           /\ HasClass(el, "as-font-red-blood")
      [] sel = PRICE_SELECTORS[3] ->
           ClassContains(el, "as-discount-price") /\ ClassContains(el, "as-font-red")
      [] sel = PRICE_SELECTORS[4] ->
           ClassContains(el, "as-price") /\ ClassContains(el, "as-font-red")
      [] sel = PRICE_SELECTORS[5] -> el.tag = "mat-label" /\ HasClass(el, "as-price")
      [] sel = PRICE_SELECTORS[6] -> ClassContains(el, "as-price")
      [] sel = PRICE_SELECTORS[7] -> el.h1rel = "adjacent" /\ ClassContains(el, "as-price")
      [] sel = PRICE_SELECTORS[8] ->
           el.h1rel \in {"adjacent", "sibling"} /\ ClassContains(el, "as-price")
      [] OTHER -> FALSE

\* document.querySelectorAll(sel): the matching elements in document order
querySelectorAll(dom, sel) == SelectSeq(dom, LAMBDA el : Matches(sel, el))

(***************************************************************************)
(* FIND_PRICE_JS                                                           *)
(***************************************************************************)
isStruck(el) ==
    LET td == Lower(IF el.textDecoration # "" THEN el.textDecoration
                    ELSE el.textDecorationLine)
    IN Contains(td, "line-through")

\* /\$\s*\d/.test(text)
hasDollarDigits(text) ==
    \E i \in 1..Len(text) :
       /\ Ch(text, i) = "$"
       /\ \E j \in (i + 1)..Len(text) :
             /\ Ch(text, j) \in Digits
             /\ \A k \in (i + 1)..(j - 1) : Ch(text, k) \in Whitespace

\* The inner loop over the nodes of one selector: what it pushes to out.
RECURSIVE PushNodes(_, _)
PushNodes(sel, nodes) ==
    IF nodes = << >> THEN << >>
    ELSE
      LET el == Head(nodes)
          txt == Strip(el.textContent)
      IN (IF ~ hasDollarDigits(txt) THEN << >>
          ELSE << [selector |-> sel, text |-> txt, color |-> el.color,
                   struck |-> isStruck(el)] >>)
         \o PushNodes(sel, Tail(nodes))

\* A variant without the break: the candidates of every selector are kept.
RECURSIVE FindFromAll(_, _, _)
FindFromAll(selList, dom, k) ==
    IF k > Len(selList) THEN << >>
    ELSE PushNodes(selList[k], querySelectorAll(dom, selList[k]))
         \o FindFromAll(selList, dom, k + 1)

\* The outer loop over selList from position k on, with out still empty.
RECURSIVE FindFrom(_, _, _)
FindFrom(selList, dom, k) ==
    IF k > Len(selList) THEN << >>
    ELSE
      LET o == PushNodes(selList[k], querySelectorAll(dom, selList[k]))
      IN IF Len(o) > 0 THEN o ELSE FindFrom(selList, dom, k + 1)

FIND_PRICE_JS(selList, dom) == FindFrom(selList, dom, 1)

(***************************************************************************)
(* The filter and the picker of get_price's polling loop                   *)
(***************************************************************************)
\* `if val:` is false for None and for 0.0
Truthy(val) == val # None /\ val[1] # 0

\* A variant that keeps the struck candidates.
RECURSIVE FilterKeepsStruck(_)
FilterKeepsStruck(raw_list) ==
    IF raw_list = << >> THEN << >>
    ELSE
      LET it == Head(raw_list)
          colorType == _color_is_red_or_black(it.color)
          val == _num(it.text)
      IN (IF colorType = None THEN << >>
          ELSE IF ~ Truthy(val) THEN << >>
          ELSE << [selector |-> it.selector, text |-> it.text, color |-> it.color,
                   struck |-> it.struck, value |-> val[1],
                   colorType |-> colorType[1]] >>)
         \o FilterKeepsStruck(Tail(raw_list))

RECURSIVE Filter(_)
Filter(raw_list) ==
    IF raw_list = << >> THEN << >>
    ELSE
      LET it == Head(raw_list)
          colorType == _color_is_red_or_black(it.color)
          val == _num(it.text)
      IN (IF it.struck THEN << >>
          ELSE IF colorType = None THEN << >>
          ELSE IF ~ Truthy(val) THEN << >>
          ELSE << [selector |-> it.selector, text |-> it.text, color |-> it.color,
                   struck |-> it.struck, value |-> val[1],
                   colorType |-> colorType[1]] >>)
         \o Filter(Tail(raw_list))

\* A variant that picks the first survivor whatever its colour.
PickFirstSurvivor(filtered) ==
    IF filtered # << >> THEN Some(filtered[1]) ELSE None

Pick(filtered) ==
    LET red_first == SelectSeq(filtered, LAMBDA x : x.colorType = "red")
        black_next == SelectSeq(filtered, LAMBDA x : x.colorType = "black")
    IN IF red_first # << >> THEN Some(red_first[1])
       ELSE IF black_next # << >> THEN Some(black_next[1])
       ELSE None

(***************************************************************************)
(* Program constants, in milliseconds                                      *)
(***************************************************************************)
TTL_MS == 300000

DEADLINE_MS == 18000

WAIT_MS == 350

(***************************************************************************)
(* Bounds of the model                                                     *)
(***************************************************************************)
\* Capacity of the cache.  The program's maxsize is 128; the model keeps the
\* eviction rule and scales the capacity down so that a full cache is reached.
MaxSize == 1

\* get_price calls per behaviour
MaxRequests == 3

\* Idle time between two calls passes in steps of IdleMs, up to MaxTicks steps.
IdleMs == 150000

MaxTicks == 2

\* A page evaluation takes no time or EvalMs.
EvalMs == 1000

\* A page evaluation that raises because the page navigates takes SlowEvalMs
\* in the calls of the service specification.
SlowEvalMs == 8650

(***************************************************************************)
(* TTLCache(maxsize, ttl): an LRU order of [key, value, expires]           *)
(***************************************************************************)
CachePos(c, k) == IF \E i \in 1..Len(c) : c[i].key = k
                  THEN CHOOSE i \in 1..Len(c) : c[i].key = k
                  ELSE 0

\* key in cache: present and not expired; reorders nothing
CacheContains(c, k, t) == CachePos(c, k) # 0 /\ t < c[CachePos(c, k)].expires

\* cache[key] of a key that is in the cache
CacheValue(c, k) == c[CachePos(c, k)].value

\* The order after cache[key]: the entry read becomes the most recently used.
CacheTouch(c, k) ==
    SelectSeq(c, LAMBDA e : e.key # k) \o << c[CachePos(c, k)] >>

\* expire(time): drop the entries whose time to live is over
CacheExpire(c, t) == SelectSeq(c, LAMBDA e : t < e.expires)

\* A variant that stores the entry without its time to live.
CacheSetNoTtl(c, k, v, t) ==
    SelectSeq(CacheExpire(c, t), LAMBDA e : e.key # k)
    \o << [key |-> k, value |-> v, expires |-> t] >>

\* cache[key] = value at time t
CacheSet(c, k, v, t) ==
    LET live == CacheExpire(c, t)
        room == IF CachePos(live, k) = 0 /\ Len(live) + 1 > MaxSize
                THEN Tail(live)                    \* popitem(): least recently used
                ELSE live
    IN SelectSeq(room, LAMBDA e : e.key # k)
       \o << [key |-> k, value |-> v, expires |-> t + TTL_MS] >>

(***************************************************************************)
(* The inputs: request URLs and the pages the browser may show             *)
(***************************************************************************)
Urls == {"/p/pulpa-de-res-1", "/p/chorizo-2", "/p/pan-3"}

El(tag, classes, text, color, deco) ==
    [tag |-> tag, classes |-> classes, h1rel |-> "sibling", textContent |-> text,
     color |-> color, textDecoration |-> deco, textDecorationLine |-> ""]

ElRed85 == El("mat-label", << "as-price" >>, " $85.00 ", "rgb(211, 47, 47)",
              "none solid rgb(211, 47, 47)")

ElBlack90 == El("mat-label", << "as-price" >>, "$ 90.00", "rgb(0, 0, 0)",
                "none solid rgb(0, 0, 0)")

ElStruck120 == El("mat-label", << "as-price" >>, "$120.00", "rgb(211, 47, 47)",
                  "line-through solid rgb(211, 47, 47)")

ElStruckDiscount == El("mat-label", << "as-discount-price", "as-font-red-blood" >>,
                       "$99.50", "rgb(211, 47, 47)", "Line-Through")

ElGrey == El("span", << "as-price-unit" >>, "$12.50 / kg", "rgb(117, 117, 117)", "none")

ElZero == El("mat-label", << "as-price" >>, "$0.00", "rgb(0, 0, 0)", "none")

ElNoDollar == El("mat-label", << "as-price", "as-font-red-blood" >>, "85.00",
                 "rgb(211, 47, 47)", "none")

\* What the browser shows and how it answers: the h1 text and whether
\* reading it succeeds, the body text and whether reading it succeeds, the
\* DOM and whether page.evaluate succeeds.
Pg(h1, h1Ok, body, bodyOk, dom, evaluable) ==
    [h1 |-> h1, h1Ok |-> h1Ok, body |-> body, bodyOk |-> bodyOk, dom |-> dom,
     evaluable |-> evaluable]

\* The page while it navigates: page.evaluate raises.
PageNavigating == Pg(" Pan Blanco ", TRUE, "", FALSE, << >>, FALSE)

\* The price markup holds no eligible price.
PageNoPrice ==
    Pg("Pan Blanco", TRUE, "Pan Blanco\nAgregar", TRUE, << ElNoDollar, ElGrey, ElZero >>, TRUE)

PageBlack ==
    Pg(" Pan Blanco ", TRUE, "Pan Blanco\n$ 90.00\nPaquete", TRUE, << ElGrey, ElBlack90 >>, TRUE)

PageRedAfterBlack ==
    Pg("Oferta", TRUE, "Oferta\n$85.00 Kg", TRUE, << ElBlack90, ElRed85 >>, TRUE)

\* The same page when the read of the h1 text and of the body time out.
PageRedUnreadable ==
    Pg("Oferta", FALSE, "Oferta\n$85.00 Kg", FALSE, << ElBlack90, ElRed85 >>, TRUE)

PageStruckThenBlack ==
    Pg("Chorizo", FALSE, "Chorizo\n$120.00 $ 90.00", TRUE, << ElStruck120, ElBlack90 >>, TRUE)

\* A struck discount price under a higher selector hides the black price.
PageStruckHides ==
    Pg("Chorizo", TRUE, "Chorizo\n$99.50 $ 90.00", TRUE, << ElBlack90, ElStruckDiscount >>, TRUE)

Pages == {PageNavigating, PageNoPrice, PageBlack, PageRedAfterBlack, PageRedUnreadable,
          PageStruckThenBlack, PageStruckHides}

\* The pages met by the calls of the service specification.
StaticPages == {PageNavigating, PageBlack, PageRedAfterBlack}

(***************************************************************************)
(* get_price                                                               *)
(***************************************************************************)
PriceResponse(u, name, price_per_kg, unit_price, pack_size, unit_weight_g, raw_unit) ==
    [url |-> u, product_name |-> name, price_per_kg |-> price_per_kg,
     unit_price |-> unit_price, unit_pack_size |-> pack_size,
     unit_weight_g |-> unit_weight_g, currency |-> "MXN", raw_unit |-> raw_unit]

Http(status, body) == [status |-> status, body |-> body]

NoResponse == Http(0, None)

NoPage == Pg("", FALSE, "", FALSE, << >>, FALSE)

\* The history kept for the properties: of the last call that polled, the
\* time its polling loop started, whether an attempt raised and the last attempt's
\* outcome; and per URL the record last extracted for it, the time it was
\* cached and the other URLs served with a record since it was last served.
NewCall(h) == [h EXCEPT !.raised = FALSE, !.last = "none", !.loopStart = now]

Touched(h, u) ==
    [v \in Urls |->
        IF v = u \/ h.served[v] = None THEN h.served[v]
        ELSE Some([h.served[v][1] EXCEPT !.others = @ \cup {u}])]

\* A cached record is served again.
ServeAgain(h, u) ==
    [h EXCEPT !.served = [Touched(h, u) EXCEPT ![u] =
        IF @ = None THEN None ELSE Some([@[1] EXCEPT !.others = {}])]]

\* A record is extracted, cached and served.
ServeNew(h, u, rec, t) ==
    [h EXCEPT !.served = [Touched(h, u) EXCEPT ![u] =
        Some([record |-> rec, at |-> t, others |-> {}])]]

\* The locals of get_price die with the call.
Return(resp) ==
    /\ response' = resp
    /\ pc' = "idle"
    /\ page' = NoPage
    /\ product_name' = None
    /\ price_val' = None
    /\ picked' = None
    /\ deadline' = 0

\* Lines 156-157: the URL is in the cache
GetPriceCached(u) ==
    /\ pc = "idle"
    /\ nreq < MaxRequests
    /\ CacheContains(cache, u, now)
    /\ nreq' = nreq + 1
    /\ url' = u
    /\ cache' = CacheTouch(cache, u)
    /\ hist' = ServeAgain(hist, u)
    /\ Return(Http(200, Some(CacheValue(cache, u))))
    /\ UNCHANGED << now, launches, inp, out >>

\* Lines 159-176: the browser is launched and the page does not load
GetPriceLoadFailure(u) ==
    /\ pc = "idle"
    /\ nreq < MaxRequests
    /\ ~ CacheContains(cache, u, now)
    /\ nreq' = nreq + 1
    /\ url' = u
    /\ launches' = launches + 1
    /\ Return(Http(502, None))
    /\ UNCHANGED << now, cache, hist, inp, out >>

\* Lines 159-191: the browser is launched, the page loads, the product name
\* is read (None when the read raises) and the polling loop is set up
GetPriceLoad(u, pg) ==
    /\ pc = "idle"
    /\ nreq < MaxRequests
    /\ ~ CacheContains(cache, u, now)
    /\ nreq' = nreq + 1
    /\ url' = u
    /\ launches' = launches + 1
    /\ page' = pg
    /\ product_name' = IF pg.h1Ok THEN Some(Strip(pg.h1)) ELSE None
    /\ price_val' = None
    /\ picked' = None
    /\ deadline' = now + DEADLINE_MS
    /\ pc' = "while"
    /\ hist' = NewCall(hist)
    /\ UNCHANGED << now, cache, response, inp, out >>

\* Line 192: the loop condition
PollCheck ==
    /\ pc = "while"
    /\ pc' = IF now < deadline /\ price_val = None THEN "try" ELSE "done"
    /\ UNCHANGED << now, cache, url, page, product_name, price_val, picked,
                    deadline, response, launches, nreq, hist, inp, out >>

\* A variant without the try: the exception ends the call.
AttemptRaisesPropagates(d) ==
    /\ pc = "try"
    /\ ~ page.evaluable
    /\ now' = now + d
    /\ hist' = [hist EXCEPT !.raised = TRUE, !.last = "raised"]
    /\ Return(Http(500, None))
    /\ UNCHANGED << cache, url, launches, nreq, inp, out >>

\* Lines 193-194, 216-217: page.evaluate raises and the loop swallows it
AttemptRaises(d) ==
    /\ pc = "try"
    /\ ~ page.evaluable
    /\ now' = now + d
    /\ pc' = "wait"
    /\ hist' = [hist EXCEPT !.raised = TRUE, !.last = "raised"]
    /\ UNCHANGED << cache, url, page, product_name, price_val, picked,
                    deadline, response, launches, nreq, inp, out >>

\* Lines 194-215: the candidates are read, filtered and one is picked
AttemptEvaluates(d) ==
    /\ pc = "try"
    /\ page.evaluable
    /\ now' = now + d
    /\ \E pick \in {Pick(Filter(FIND_PRICE_JS(PRICE_SELECTORS, page.dom)))} :
          IF pick # None
          THEN /\ price_val' = Some(pick[1].value)
               /\ picked' = pick
               /\ pc' = "done"
               /\ hist' = [hist EXCEPT !.last = "pick"]
          ELSE /\ pc' = "wait"
               /\ hist' = [hist EXCEPT !.last = "nopick"]
               /\ UNCHANGED << price_val, picked >>
    /\ UNCHANGED << cache, url, page, product_name, deadline, response,
                    launches, nreq, inp, out >>

\* A variant that compares the time with the deadline before it waits.
PollWaitChecksFirst ==
    /\ pc = "wait"
    /\ IF now >= deadline
       THEN now' = now /\ pc' = "done"
       ELSE now' = now + WAIT_MS /\ pc' = "while"
    /\ UNCHANGED << cache, url, page, product_name, price_val, picked,
                    deadline, response, launches, nreq, hist, inp, out >>

\* A variant whose wait takes no time.
PollWaitNoTime ==
    /\ pc = "wait"
    /\ now' = now
    /\ pc' = "while"
    /\ UNCHANGED << cache, url, page, product_name, price_val, picked,
                    deadline, response, launches, nreq, hist, inp, out >>

\* Line 218: page.wait_for_timeout(350)
PollWait ==
    /\ pc = "wait"
    /\ now' = now + WAIT_MS
    /\ pc' = "while"
    /\ UNCHANGED << cache, url, page, product_name, price_val, picked,
                    deadline, response, launches, nreq, hist, inp, out >>

\* A variant that caches a record without a price before it fails.
PriceNotFoundCaches ==
    /\ pc = "done"
    /\ price_val = None
    /\ cache' = CacheSet(cache, url,
                         PriceResponse(url, product_name, None, None, None, None, "pieza"),
                         now)
    /\ Return(Http(500, None))
    /\ UNCHANGED << now, url, launches, nreq, hist, inp, out >>

\* Lines 229-231: no price was found
PriceNotFound ==
    /\ pc = "done"
    /\ price_val = None
    /\ Return(Http(500, None))
    /\ UNCHANGED << now, cache, url, launches, nreq, hist, inp, out >>

\* A variant that sets unit_price whatever the unit.
UnitPricesBoth(g, name, u, val) ==
    PriceResponse(u, name, IF g.unit = "kg" THEN val ELSE None, val,
                  g.pack_size, g.unit_weight_g, g.unit)

\* Lines 239-261: the unit is guessed, the price goes to price_per_kg or to
\* unit_price, the record is built
UnitPrices(g, name, u, val) ==
    PriceResponse(u, name,
                  IF g.unit = "kg" THEN val ELSE None,
                  IF g.unit = "kg" THEN None ELSE val,
                  g.pack_size, g.unit_weight_g, g.unit)

BuildResponse(u, name, val, page_text) ==
    UnitPrices(_guess_units(u, page_text), name, u, val)

\* Lines 233-263: the record is built, cached and returned; the page text
\* is "" when reading the body raises
Respond ==
    /\ pc = "done"
    /\ price_val # None
    /\ \E resp \in {BuildResponse(url, product_name, price_val,
                                    IF page.bodyOk THEN page.body ELSE "")} :
          /\ cache' = CacheSet(cache, url, resp, now)
          /\ hist' = ServeNew(hist, url, resp, now)
          /\ Return(Http(200, Some(resp)))
    /\ UNCHANGED << now, url, launches, nreq, inp, out >>

\* Time passes between two calls.
Tick ==
    /\ pc = "idle"
    /\ now < MaxTicks * IdleMs
    /\ now' = now + IdleMs
    /\ UNCHANGED << cache, pc, url, page, product_name, price_val, picked,
                    deadline, response, launches, nreq, hist, inp, out >>

\* The page keeps rendering while the loop polls it.
PageChangesTo(S) ==
    /\ pc \in {"while", "try", "wait"}
    /\ \E pg \in S \ {page} : page' = pg
    /\ UNCHANGED << now, cache, pc, url, product_name, price_val, picked,
                    deadline, response, launches, nreq, hist, inp, out >>

PageChanges == PageChangesTo(Pages)

Init ==
    /\ now = 0
    /\ cache = << >>
    /\ pc = "idle"
    /\ url = ""
    /\ page = NoPage
    /\ product_name = None
    /\ price_val = None
    /\ picked = None
    /\ deadline = 0
    /\ response = NoResponse
    /\ launches = 0
    /\ nreq = 0
    /\ hist = [raised |-> FALSE, last |-> "none", loopStart |-> 0,
               served |-> [v \in Urls |-> None]]
    /\ inp = None
    /\ out = None

\* The service: calls one after the other, each against a page that stays as
\* it loaded for the whole call.
Next ==
    \/ \E u \in Urls : GetPriceCached(u)
    \/ \E u \in Urls : GetPriceLoadFailure(u)
    \/ \E u \in Urls, pg \in StaticPages : GetPriceLoad(u, pg)
    \/ PollCheck
    \/ AttemptRaises(SlowEvalMs)
    \/ AttemptEvaluates(0)
    \/ PollWait
    \/ PriceNotFound
    \/ Respond
    \/ Tick

Spec == Init /\ [][Next]_vars

(***************************************************************************)
(* One call on a cold cache against a page that keeps rendering while the  *)
(* loop polls it; an evaluation takes no time or EvalMs.                   *)
(***************************************************************************)
PollUrl == "/p/pan-3"

NextPoll ==
    \/ \E pg \in Pages : nreq = 0 /\ GetPriceLoad(PollUrl, pg)
    \/ PollCheck
    \/ \E d \in {0, EvalMs} : AttemptRaises(d)
    \/ \E d \in {0, EvalMs} : AttemptEvaluates(d)
    \/ PollWait
    \/ PriceNotFound
    \/ Respond
    \/ PageChanges

SpecPoll == Init /\ [][NextPoll]_vars

(***************************************************************************)
(* One call on a cold cache whose attempts are instantaneous or slow, on a *)
(* page that is navigating, shows no price yet or shows its price.  The    *)
(* thread that runs the call keeps running: each of its steps is weakly    *)
(* fair.  An attempt can be made whenever the call is at the try, and the  *)
(* record can be built whenever the loop has ended with a price, so the    *)
(* weak fairness of these two steps is written with their guards in the    *)
(* place of ENABLED.                                                       *)
(***************************************************************************)
DeadlinePages == {PageNavigating, PageNoPrice, PageBlack}

AttemptDeadline == \E d \in {0, SlowEvalMs} : AttemptRaises(d) \/ AttemptEvaluates(d)

FairAttempt == ([]<>(pc # "try")) \/ []<><<AttemptDeadline>>_vars

FairRespond == ([]<>~(pc = "done" /\ price_val # None)) \/ []<><<Respond>>_vars

NextDeadline ==
    \/ \E pg \in DeadlinePages : nreq = 0 /\ GetPriceLoad(PollUrl, pg)
    \/ PollCheck
    \/ \E d \in {0, SlowEvalMs} : AttemptRaises(d)
    \/ \E d \in {0, SlowEvalMs} : AttemptEvaluates(d)
    \/ PollWait
    \/ PriceNotFound
    \/ Respond
    \/ PageChangesTo(DeadlinePages)

SpecDeadline ==
    /\ Init /\ [][NextDeadline]_vars
    /\ WF_vars(PollCheck) /\ WF_vars(PollWait) /\ WF_vars(PriceNotFound)
    /\ FairAttempt /\ FairRespond

(***************************************************************************)
(* The pure functions, each applied once to an input drawn by Init         *)
(***************************************************************************)
Idle ==
    /\ now = 0
    /\ cache = << >>
    /\ pc = "idle"
    /\ url = ""
    /\ page = NoPage
    /\ product_name = None
    /\ price_val = None
    /\ picked = None
    /\ deadline = 0
    /\ response = NoResponse
    /\ launches = 0
    /\ nreq = 0
    /\ hist = [raised |-> FALSE, last |-> "none", loopStart |-> 0,
               served |-> [v \in Urls |-> None]]

Apply(result) ==
    /\ out = None
    /\ out' = Some(result)
    /\ UNCHANGED << now, cache, pc, url, page, product_name, price_val, picked,
                    deadline, response, launches, nreq, hist, inp >>

\* _guess_units on a URL and a page text.  The text holds, for each rule, none
\* or one of the rule's keywords as the page would spell it, in either order.
UnitUrls == {"/p/Pan-3", "/p/cerveza-six-pack-7", "/p/jamon-de-pierna-9"}

UnitWords ==
    << {"", "Six Pack", "SIX-PACK"},
       {"", "Lata", "V8", "Nectar-Mixto", "Platano"},
       {"", "1 Kg", "Kilo", "Cebolla", "Tocineta", "Pulpa-de-Res"},
       {"", "Chorizo"},
       {"", "Salchichas", "salchicha"},
       {"", "Paquete"} >>

UnitTexts ==
    UNION { { w1 \o " " \o w2 \o " " \o w3 \o " " \o w4 \o " " \o w5 \o " " \o w6,
              w6 \o " " \o w5 \o " " \o w4 \o " " \o w3 \o " " \o w2 \o " " \o w1 } :
            << w1, w2, w3, w4, w5, w6 >> \in
               UnitWords[1] \X UnitWords[2] \X UnitWords[3] \X UnitWords[4]
               \X UnitWords[5] \X UnitWords[6] }

InitUnits ==
    /\ Idle
    /\ inp \in [u : UnitUrls, page_text : UnitTexts]
    /\ out = None

GuessUnits == Apply(_guess_units(inp.u, inp.page_text))

NextUnits == GuessUnits

SpecUnits == InitUnits /\ [][NextUnits]_vars

\* FIND_PRICE_JS on a DOM of up to MaxNodes elements.
MaxNodes == 3

Node(tag, classes, h1rel, text, deco) ==
    [tag |-> tag, classes |-> classes, h1rel |-> h1rel, textContent |-> text,
     color |-> "rgb(0, 0, 0)", textDecoration |-> deco, textDecorationLine |-> deco]

Nodes ==
    { Node("mat-label", << "as-discount-price", "as-font-red-blood" >>, "adjacent",
           "$85.00", "line-through"),
      Node("mat-label", << "as-discount-price", "as-font-red-blood" >>, "none",
           "85.00", "none"),
      Node("mat-label", << "as-price", "as-font-red-blood" >>, "none", " $ 90 ", "none"),
      Node("mat-label", << "as-price", "as-font-red-blood" >>, "none", "$ abc 5", "none"),
      Node("span", << "as-discount-price-old", "as-font-red" >>, "none", "$70.00", ""),
      Node("span", << "as-price-main", "as-font-red-soft" >>, "sibling", "$60", "none"),
      Node("mat-label", << "as-price" >>, "none", "Precio $50.00", "none"),
      Node("div", << "box", "as-price-tag" >>, "adjacent", "$40", "none"),
      Node("div", << "total" >>, "sibling", "$10", "none") }

Doms == UNION { [1..n -> Nodes] : n \in 0..MaxNodes }

InitLocate ==
    /\ Idle
    /\ inp \in Doms
    /\ out = None

Locate == Apply(FIND_PRICE_JS(PRICE_SELECTORS, inp))

NextLocate == Locate

SpecLocate == InitLocate /\ [][NextLocate]_vars

\* The filter and the picker on a candidate list of up to MaxCands entries.
MaxCands == 3

Cand(text, color, struck) ==
    [selector |-> PRICE_SELECTORS[5], text |-> text, color |-> color, struck |-> struck]

Cands ==
    { Cand("$85.00", "rgb(211, 47, 47)", FALSE),
      Cand("$ 90.00", "rgb(0, 0, 0)", FALSE),
      Cand("$120.00", "rgb(211, 47, 47)", TRUE),
      Cand("$12.50", "rgb(117, 117, 117)", FALSE),
      Cand("$0.00", "rgba(255, 0, 0, 1)", FALSE),
      Cand("$70", "#F00", FALSE),
      Cand("$1,234.5", "black", FALSE),
      Cand("$ --", "rgb(200, 10, 10)", FALSE) }

CandLists == UNION { [1..n -> Cands] : n \in 0..MaxCands }

InitPick ==
    /\ Idle
    /\ inp \in CandLists
    /\ out = None

FilterAndPick == Apply(Pick(Filter(inp)))

NextPick == FilterAndPick

SpecPick == InitPick /\ [][NextPick]_vars

(***************************************************************************)
(* Properties                                                              *)
(***************************************************************************)
ExactlyOnePrice(r) == (r.price_per_kg = None) # (r.unit_price = None)

\* C1: every record get_price returns has exactly one of price_per_kg and
\* unit_price set, and the extraction that builds it puts the picked value in
\* price_per_kg when raw_unit is "kg" and in unit_price for every other unit.
C1_UnitAssignment ==
    /\ [](response.status = 200 =>
            /\ response.body # None
            /\ ExactlyOnePrice(response.body[1]))
    /\ [][(pc = "done" /\ price_val # None /\ pc' = "idle") =>
            /\ response'.status = 200
            /\ LET r == response'.body[1]
               IN IF r.raw_unit = "kg"
                  THEN r.price_per_kg = Some(picked[1].value) /\ r.unit_price = None
                  ELSE r.unit_price = Some(picked[1].value) /\ r.price_per_kg = None]_vars

C1_Witness ==
    /\ response.status = 200
    /\ response.body[1].raw_unit = "kg"
    /\ response.body[1].price_per_kg = Some(8500)
    /\ response.body[1].unit_price = None

\* The candidates of a raw list that survive the filter with a colour class:
\* not struck, classified cls, with a numeric value that is not zero.
C2_Survives(c, cls) ==
    /\ ~ c.struck
    /\ _color_is_red_or_black(c.color) = Some(cls)
    /\ _num(c.text) # None
    /\ _num(c.text)[1] # 0

C2_FirstOf(list, cls) ==
    CHOOSE i \in 1..Len(list) :
       /\ C2_Survives(list[i], cls)
       /\ \A j \in 1..(i - 1) : ~ C2_Survives(list[j], cls)

C2_Same(p, c) == p.text = c.text /\ p.color = c.color /\ p.struck = c.struck
                 /\ p.selector = c.selector /\ p.value = _num(c.text)[1]

\* C2: of one attempt's candidate list the picker takes the first surviving
\* red candidate if there is one, otherwise the first surviving black one,
\* otherwise nothing.
C2_RedBeforeBlack ==
    out # None =>
      LET pick == out[1]
          reds == \E i \in 1..Len(inp) : C2_Survives(inp[i], "red")
          blacks == \E i \in 1..Len(inp) : C2_Survives(inp[i], "black")
      IN IF reds
         THEN /\ pick # None
              /\ pick[1].colorType = "red"
              /\ C2_Same(pick[1], inp[C2_FirstOf(inp, "red")])
         ELSE IF blacks
         THEN /\ pick # None
              /\ pick[1].colorType = "black"
              /\ C2_Same(pick[1], inp[C2_FirstOf(inp, "black")])
         ELSE pick = None

C2_Witness ==
    /\ inp = << Cand("$ 90.00", "rgb(0, 0, 0)", FALSE),
                Cand("$85.00", "rgb(211, 47, 47)", FALSE) >>
    /\ out # None
    /\ out[1] # None
    /\ out[1][1].value = 8500

\* C3: the candidate of a Found outcome is an element of the page as it was
\* evaluated that is not struck, has the colour class red or black and a
\* numeric value, and price_val is that value.
C3_PickedEligible ==
    (pc = "done" /\ price_val # None) =>
      /\ picked # None
      /\ ~ picked[1].struck
      /\ picked[1].colorType \in {"red", "black"}
      /\ picked[1].value > 0
      /\ price_val = Some(picked[1].value)
      /\ \E i \in 1..Len(page.dom) :
            /\ Strip(page.dom[i].textContent) = picked[1].text
            /\ page.dom[i].color = picked[1].color
            /\ ~ isStruck(page.dom[i])
            /\ _color_is_red_or_black(page.dom[i].color) = Some(picked[1].colorType)
            /\ _num(picked[1].text) = Some(picked[1].value)

C3_Witness ==
    /\ pc = "done"
    /\ page = PageStruckThenBlack
    /\ picked # None
    /\ picked[1].value = 9000
    /\ picked[1].colorType = "black"

\* C4: a polling loop whose attempts pick nothing ends, it ends timed out and
\* not before 18 s after it started, and get_price then answers 500.
C4_TimedOut ==
    /\ []((pc = "done" /\ hist.last # "pick") =>
            /\ price_val = None
            /\ now >= hist.loopStart + DEADLINE_MS)
    /\ [][(pc = "done" /\ price_val = None /\ pc' # "done") =>
            response' = Http(500, None) /\ pc' = "idle"]_vars
    /\ ((pc # "idle") ~> (pc = "idle"))

C4_Witness ==
    /\ pc = "idle"
    /\ response = Http(500, None)
    /\ hist.last = "nopick"
    /\ now >= hist.loopStart + DEADLINE_MS

\* C5: an attempt that raises leaves the loop searching with no price and no
\* response; the call answers 500 only once the deadline has passed; and an
\* attempt that finds an eligible candidate ends the loop with its price,
\* whatever was raised before.
C5_ExceptionSwallowed ==
    /\ []((pc # "idle") => response = NoResponse)
    /\ []((response.status >= 500) => now >= hist.loopStart + DEADLINE_MS)
    /\ [][(pc = "try" /\ pc' # "try" /\ ~ page.evaluable) =>
            /\ pc' = "wait"
            /\ price_val' = None
            /\ response' = response
            /\ hist'.raised]_vars
    /\ [][(pc = "try" /\ pc' # "try" /\ page.evaluable
           /\ Pick(Filter(FIND_PRICE_JS(PRICE_SELECTORS, page.dom))) # None) =>
            pc' = "done" /\ price_val' # None]_vars

C5_Witness ==
    /\ hist.raised
    /\ pc = "idle"
    /\ response.status = 200

C6_Within(u) == hist.served[u] # None /\ now < hist.served[u][1].at + TTL_MS

C6_Issued(u) == pc = "idle" /\ nreq' = nreq + 1 /\ url' = u

C6_ServedAgain(u) ==
    /\ pc' = "idle"
    /\ response' = Http(200, Some(hist.served[u][1].record))
    /\ launches' = launches

C7_CachedOnlyOnSuccess ==
    /\ [](\A i \in 1..Len(cache) :
             /\ cache[i].key = cache[i].value.url
             /\ ExactlyOnePrice(cache[i].value))
    /\ [][(cache' # cache) => (pc' = "idle" /\ response'.status = 200)]_vars
    /\ [][(pc' = "idle" /\ response'.status \in {500, 502}) => cache' = cache]_vars

C7_Witness ==
    /\ pc = "idle"
    /\ response.status = 500
    /\ Len(cache) > 0

\* The decision table of the unit heuristic: the keywords of each rule, in
\* the order of the rules, and what each rule returns.
C8_Keys ==
    << {"cerveza-six-pack", "six pack", "six-pack"},
       {"nectar-mixto", "v8", "lata"},
       {"kg", "kilo", "pulpa-de-res", "jamon-de-pierna", "tocineta", "cebolla"},
       {"chorizo"},
       {"salchicha", "salchichas"},
       {"paquete"} >>

C8_Results ==
    << Units("six-pack", Some(6), None),
       Units("lata", Some(1), None),
       Units("kg", None, None),
       Units("pieza", Some(1), Some(100)),
       Units("paquete", Some(1), Some(800)),
       Units("paquete", Some(1), Some(800)) >>

C8_Present(k, low) == \E key \in C8_Keys[k] : Contains(low, key)

\* C8: _guess_units returns the result of the first rule, in the order
\* six-pack, lata, kg, chorizo, salchicha, paquete, one of whose keywords is
\* in the lower-cased URL and page text, and (pieza, 1, none) when no rule has.
C8_FirstRuleWins ==
    out # None =>
      LET low == Lower(inp.u \o " " \o inp.page_text)
      IN /\ \A k \in 1..6 :
               (C8_Present(k, low) /\ \A j \in 1..(k - 1) : ~ C8_Present(j, low))
               => out[1] = C8_Results[k]
         /\ (\A k \in 1..6 : ~ C8_Present(k, low))
               => out[1] = Units("pieza", Some(1), None)

C8_Witness ==
    /\ out # None
    /\ Contains(Lower(inp.page_text), "paquete")
    /\ Contains(Lower(inp.page_text), "six pack")
    /\ Contains(Lower(inp.page_text), "chorizo")
    /\ out[1] = Units("six-pack", Some(6), None)

\* An element takes part in the locator's answer for selector k when it
\* matches the selector and its text has a "$" followed by a digit.
C9_Qualifies(k, el) ==
    /\ Matches(PRICE_SELECTORS[k], el)
    /\ \E i \in 1..Len(el.textContent) :
          /\ Ch(el.textContent, i) = "$"
          /\ \E j \in (i + 1)..Len(el.textContent) :
                /\ Ch(el.textContent, j) \in Digits
                /\ \A m \in (i + 1)..(j - 1) : Ch(el.textContent, m) \in Whitespace

C9_Some(k, dom) == \E i \in 1..Len(dom) : C9_Qualifies(k, dom[i])

\* C9: the locator returns the qualifying elements of one selector, the first
\* in PRICE_SELECTORS order that has any, in document order, and nothing of
\* any other selector; it returns nothing only when no selector has one.
C9_OneSelector ==
    out # None =>
      LET res == out[1]
          any == \E k \in 1..Len(PRICE_SELECTORS) : C9_Some(k, inp)
      IN IF ~ any THEN res = << >>
         ELSE
           LET k == CHOOSE n \in 1..Len(PRICE_SELECTORS) :
                       C9_Some(n, inp) /\ \A j \in 1..(n - 1) : ~ C9_Some(j, inp)
               els == SelectSeq(inp, LAMBDA el : C9_Qualifies(k, el))
           IN /\ Len(res) = Len(els)
              /\ Len(res) > 0
              /\ \A n \in 1..Len(res) :
                    /\ res[n].selector = PRICE_SELECTORS[k]
                    /\ res[n].text = Strip(els[n].textContent)
                    /\ res[n].color = els[n].color
                    /\ res[n].struck = isStruck(els[n])

C9_Witness ==
    /\ out # None
    /\ Len(inp) = 3
    /\ Len(out[1]) = 1
    /\ out[1][1].selector = PRICE_SELECTORS[1]
    /\ out[1][1].struck
    /\ \E i \in 1..Len(inp) : C9_Qualifies(5, inp[i]) /\ ~ isStruck(inp[i])

\* C10 as stated: after an attempt without a pick the loop ends at once,
\* without waiting, when the deadline has passed, and waits 350 ms otherwise.
C10_Original ==
    [][(pc = "wait" /\ pc' # "wait") =>
          IF now >= deadline
          THEN now' = now /\ pc' = "done"
          ELSE now' = now + WAIT_MS]_vars

\* C10: after an attempt without a pick the loop always waits 350 ms, and
\* only then compares the time with the deadline: it ends timed out when the
\* deadline has passed and starts another attempt otherwise.
C10_WaitThenCompare ==
    /\ [][(pc = "try" /\ pc' # "try" /\ price_val' = None) => pc' = "wait"]_vars
    /\ [][(pc = "wait" /\ pc' # "wait") => (now' = now + WAIT_MS /\ pc' = "while")]_vars
    /\ [][(pc = "while" /\ pc' # "while" /\ price_val = None) =>
            /\ now' = now
            /\ pc' = IF now >= deadline THEN "done" ELSE "try"]_vars

C10_Witness ==
    /\ pc = "wait"
    /\ now >= deadline
    /\ hist.last = "nopick"

====
